---- MODULE Spec2Model ----
(***************************************************************************)
(* Wire/domain conversions of crates/ibc/src/types.rs (ethereum-ibc-rs).   *)
(*                                                                         *)
(* Byte strings are sequences of bytes (0..255).  A domain H256,           *)
(* PublicKey and Signature is a byte string of its fixed width.  A call    *)
(* ends in one of three outcomes: Ok(value), Err(error) or Panic (the      *)
(* thread unwinds, no value is returned).                                  *)
(***************************************************************************)
EXTENDS Integers, Sequences, FiniteSets, TLC

VARIABLES pc, wire, dom, ret

vars == <<pc, wire, dom, ret>>

(***************************************************************************)
(* Widths of the fixed-size byte types and the protocol constants.         *)
(***************************************************************************)
HashLen == 32

PublicKeyLen == 48

SignatureLen == 96

ETHEREUM_CLIENT_REVISION_NUMBER == 0

(***************************************************************************)
(* Bounds of the model.                                                    *)
(***************************************************************************)
\* the const generic parameter SYNC_COMMITTEE_SIZE of the checked instance
SYNC_COMMITTEE_SIZE == 2

\* longest account proof drawn as an input
MaxProofLen == 2

(***************************************************************************)
(* Option, Result and panics.                                              *)
(***************************************************************************)
None == [some |-> FALSE]

Some(v) == [some |-> TRUE, v |-> v]

Ok(v) == [kind |-> "Ok", val |-> v]

Err(e) == [kind |-> "Err", err |-> e]

Panic == [kind |-> "Panic"]

Fill(len, b) == [i \in 1..len |-> b]

(***************************************************************************)
(* Errors.                                                                 *)
(***************************************************************************)
proto_missing(name) == [type |-> "MissingField", name |-> name]

(***************************************************************************)
(* Fixed-width byte types of the collaborating crates.                     *)
(***************************************************************************)
\* H256::from_slice: asserts the slice is exactly 32 bytes long
H256_from_slice(b) == IF Len(b) = HashLen THEN Ok(b) ELSE Panic

\* H256::as_bytes().to_vec()
H256_as_bytes(h) == [i \in 1..HashLen |-> h[i]]

\* PublicKey::try_from(Vec<u8>): fails on a length other than 48
PublicKey_try_from(b) ==
    IF Len(b) = PublicKeyLen THEN Ok(b)
    ELSE Err([type |-> "InvalidBLSPublicKeyLength", got |-> Len(b)])

\* PublicKey::to_vec()
PublicKey_to_vec(pk) == [i \in 1..PublicKeyLen |-> pk[i]]

\* Signature::try_from(Vec<u8>): fails on a length other than 96
Signature_try_from(b) ==
    IF Len(b) = SignatureLen THEN Ok(b)
    ELSE Err([type |-> "InvalidBLSSignatureLength", got |-> Len(b)])

\* Signature.0.to_vec()
Signature_to_vec(s) == [i \in 1..SignatureLen |-> s[i]]

\* number of bytes that hold n bits
byte_length(n) == (n + 7) \div 8

\* bit k (little-endian) of a byte
BitAt(byte, k) == (byte \div (2 ^ k)) % 2

\* Bitvector::<N>::deserialize: exactly byte_length(N) bytes and no bit set
\* at or beyond position N; the domain value is the sequence of N booleans
Bitvector_deserialize(bytes) ==
    IF Len(bytes) < byte_length(SYNC_COMMITTEE_SIZE)
    THEN Err([type |-> "ExpectedFurtherInput", provided |-> Len(bytes)])
    ELSE IF Len(bytes) > byte_length(SYNC_COMMITTEE_SIZE)
    THEN Err([type |-> "AdditionalInput", provided |-> Len(bytes)])
    ELSE IF SYNC_COMMITTEE_SIZE % 8 # 0
            /\ bytes[Len(bytes)] \div (2 ^ (SYNC_COMMITTEE_SIZE % 8)) # 0
    THEN Err([type |-> "InvalidByte", byte |-> bytes[Len(bytes)]])
    ELSE Ok([i \in 1..SYNC_COMMITTEE_SIZE |->
                BitAt(bytes[((i - 1) \div 8) + 1], (i - 1) % 8) = 1])

RECURSIVE ByteOf(_, _, _)
\* the byte number j (from 0) of the serialization of bits, built from bit k up
ByteOf(bits, j, k) ==
    IF k > 7 THEN 0
    ELSE (IF 8 * j + k + 1 <= Len(bits) /\ bits[8 * j + k + 1] THEN 2 ^ k ELSE 0)
         + ByteOf(bits, j, k + 1)

\* ssz_rs::serialize(&Bitvector<N>)
Bitvector_serialize(bits) ==
    [j \in 1..byte_length(Len(bits)) |-> ByteOf(bits, j - 1, 0)]

\* the outcomes of Vector::<PublicKey, N>::from_iter on the collected keys.
\* FromIterator::from_iter returns Self, so it has no way to return an Err;
\* what it does with a count other than N is the library's choice, and each
\* behaviour a library can have is admitted: it panics, it keeps the items as
\* given, or it fits them to N (truncating, padding with the default key).
FromIterModes == {"panic", "unchecked", "fit"}

Vector_from_iter(items, mode) ==
    IF Len(items) = SYNC_COMMITTEE_SIZE THEN Ok(items)
    ELSE IF mode = "panic" THEN Panic
    ELSE IF mode = "unchecked" THEN Ok(items)
    ELSE Ok([i \in 1..SYNC_COMMITTEE_SIZE |->
                IF i <= Len(items) THEN items[i] ELSE Fill(PublicKeyLen, 0)])

\* .map(|pk| pk.try_into()).collect::<Result<Vec<PublicKey>, _>>():
\* the error of the first key that fails, or all the keys
collect_pubkeys(pubkeys) ==
    IF \E i \in DOMAIN pubkeys : PublicKey_try_from(pubkeys[i]).kind = "Err"
    THEN PublicKey_try_from(pubkeys[
            CHOOSE i \in DOMAIN pubkeys :
                /\ PublicKey_try_from(pubkeys[i]).kind = "Err"
                /\ \A j \in 1..(i - 1) : PublicKey_try_from(pubkeys[j]).kind = "Ok"])
    ELSE Ok([i \in DOMAIN pubkeys |-> PublicKey_try_from(pubkeys[i]).val])

(***************************************************************************)
(* Branch and header codecs.                                               *)
(***************************************************************************)
decode_branch(bz) ==
    IF \E i \in DOMAIN bz : H256_from_slice(bz[i]).kind = "Panic" THEN Panic
    ELSE Ok([i \in DOMAIN bz |-> H256_from_slice(bz[i]).val])

encode_branch(branch) == [i \in DOMAIN branch |-> H256_as_bytes(branch[i])]

convert_proto_to_header(header) ==
    LET parent_root == H256_from_slice(header.parent_root)
        state_root == H256_from_slice(header.state_root)
        body_root == H256_from_slice(header.body_root)
    IN  IF parent_root.kind = "Panic" THEN Panic
        ELSE IF state_root.kind = "Panic" THEN Panic
        ELSE IF body_root.kind = "Panic" THEN Panic
        ELSE Ok([slot |-> header.slot,
                 proposer_index |-> header.proposer_index,
                 parent_root |-> parent_root.val,
                 state_root |-> state_root.val,
                 body_root |-> body_root.val])

\* faulty variant: state_root and body_root change places
header_to_proto_swapped_roots(header) ==
    [slot |-> header.slot,
     proposer_index |-> header.proposer_index,
     parent_root |-> H256_as_bytes(header.parent_root),
     state_root |-> H256_as_bytes(header.body_root),
     body_root |-> H256_as_bytes(header.state_root)]

convert_header_to_proto(header) ==
    [slot |-> header.slot,
     proposer_index |-> header.proposer_index,
     parent_root |-> H256_as_bytes(header.parent_root),
     state_root |-> H256_as_bytes(header.state_root),
     body_root |-> H256_as_bytes(header.body_root)]

(***************************************************************************)
(* Sync-aggregate codec.                                                   *)
(***************************************************************************)
convert_sync_aggregate_to_proto(sync_aggregate) ==
    [sync_committee_bits |-> Bitvector_serialize(sync_aggregate.sync_committee_bits),
     sync_committee_signature |->
         Signature_to_vec(sync_aggregate.sync_committee_signature)]

\* faulty variant: the signature is converted before the bits
sync_aggregate_signature_first(sync_aggregate) ==
    LET bits == Bitvector_deserialize(sync_aggregate.sync_committee_bits)
        signature == Signature_try_from(sync_aggregate.sync_committee_signature)
    IN  IF signature.kind = "Err" THEN signature
        ELSE IF bits.kind = "Err"
        THEN Err([type |-> "DeserializeSyncCommitteeBitsError",
                  parent |-> bits.err,
                  sync_committee_size |-> SYNC_COMMITTEE_SIZE,
                  sync_committee_bits |-> sync_aggregate.sync_committee_bits])
        ELSE Ok([sync_committee_bits |-> bits.val,
                 sync_committee_signature |-> signature.val])

convert_proto_sync_aggregate(sync_aggregate) ==
    LET bits == Bitvector_deserialize(sync_aggregate.sync_committee_bits)
        signature == Signature_try_from(sync_aggregate.sync_committee_signature)
    IN  IF bits.kind = "Err"
        THEN Err([type |-> "DeserializeSyncCommitteeBitsError",
                  parent |-> bits.err,
                  sync_committee_size |-> SYNC_COMMITTEE_SIZE,
                  sync_committee_bits |-> sync_aggregate.sync_committee_bits])
        ELSE IF signature.kind = "Err" THEN signature
        ELSE Ok([sync_committee_bits |-> bits.val,
                 sync_committee_signature |-> signature.val])

(***************************************************************************)
(* Sync-committee construction shared by the two decoders: the keys are    *)
(* collected, the Vector is built from them, then the aggregate key is     *)
(* converted.                                                              *)
(***************************************************************************)
decode_sync_committee(committee, mode) ==
    LET keys == collect_pubkeys(committee.pubkeys)
        pubkeys == Vector_from_iter(keys.val, mode)
        aggregate_pubkey == PublicKey_try_from(committee.aggregate_pubkey)
    IN  IF keys.kind = "Err" THEN keys
        ELSE IF pubkeys.kind = "Panic" THEN Panic
        ELSE IF aggregate_pubkey.kind = "Err" THEN aggregate_pubkey
        ELSE Ok([pubkeys |-> pubkeys.val,
                 aggregate_pubkey |-> aggregate_pubkey.val])

encode_sync_committee(committee) ==
    [pubkeys |-> [i \in DOMAIN committee.pubkeys |->
                      PublicKey_to_vec(committee.pubkeys[i])],
     aggregate_pubkey |-> PublicKey_to_vec(committee.aggregate_pubkey)]

(***************************************************************************)
(* Consensus-update record.                                                *)
(***************************************************************************)
\* faulty variant: the committee is emitted only with a non-empty branch
encode_committee_collapsing(next_sync_committee) ==
    IF next_sync_committee.some /\ next_sync_committee.v[2] # <<>>
    THEN Some(encode_sync_committee(next_sync_committee.v[1]))
    ELSE None

\* consensus_update.next_sync_committee.clone().map(|c| ProtoSyncCommittee {..})
encode_next_sync_committee(next_sync_committee) ==
    IF next_sync_committee.some
    THEN Some(encode_sync_committee(next_sync_committee.v[1]))
    ELSE None

\* consensus_update.next_sync_committee.map_or(Vec::new(), |(_, branch)| ..)
encode_next_sync_committee_branch(next_sync_committee) ==
    IF next_sync_committee.some
    THEN encode_branch(next_sync_committee.v[2])
    ELSE <<>>

convert_consensus_update_to_proto(consensus_update) ==
    [attested_header |->
         Some(convert_header_to_proto(consensus_update.attested_header)),
     next_sync_committee |->
         encode_next_sync_committee(consensus_update.next_sync_committee),
     next_sync_committee_branch |->
         encode_next_sync_committee_branch(consensus_update.next_sync_committee),
     finalized_header |->
         Some(convert_header_to_proto(consensus_update.finalized_header[1])),
     finalized_header_branch |->
         encode_branch(consensus_update.finalized_header[2]),
     finalized_execution_root |->
         H256_as_bytes(consensus_update.finalized_execution_root),
     finalized_execution_branch |->
         encode_branch(consensus_update.finalized_execution_branch),
     sync_aggregate |->
         Some(convert_sync_aggregate_to_proto(consensus_update.sync_aggregate)),
     signature_slot |-> consensus_update.signature_slot]

\* faulty variant: the emptiness of the branch is not looked at
collapses_ignoring_branch(consensus_update) ==
    \/ ~consensus_update.next_sync_committee.some
    \/ consensus_update.next_sync_committee.v.pubkeys = <<>>

\* the condition of the `if` that decides the decoded next_sync_committee
next_sync_committee_collapses(consensus_update) ==
    \/ ~consensus_update.next_sync_committee.some
    \/ consensus_update.next_sync_committee.v.pubkeys = <<>>
    \/ consensus_update.next_sync_committee_branch = <<>>

\* the `else` arm: Some((SyncCommittee {..}, decode_branch(..)))
decode_next_sync_committee(consensus_update, mode) ==
    LET committee ==
            decode_sync_committee(consensus_update.next_sync_committee.v, mode)
        branch == decode_branch(consensus_update.next_sync_committee_branch)
    IN  IF committee.kind # "Ok" THEN committee
        ELSE IF branch.kind = "Panic" THEN Panic
        ELSE Ok(Some(<<committee.val, branch.val>>))

convert_proto_to_consensus_update(consensus_update, mode) ==
    LET attested_header ==
            convert_proto_to_header(consensus_update.attested_header.v)
        finalized_header ==
            convert_proto_to_header(consensus_update.finalized_header.v)
        finalized_execution_branch ==
            decode_branch(consensus_update.finalized_execution_branch)
        next_sync_committee ==
            IF next_sync_committee_collapses(consensus_update) THEN Ok(None)
            ELSE decode_next_sync_committee(consensus_update, mode)
        finalized_header_branch ==
            decode_branch(consensus_update.finalized_header_branch)
        sync_aggregate ==
            convert_proto_sync_aggregate(consensus_update.sync_aggregate.v)
        finalized_execution_root ==
            H256_from_slice(consensus_update.finalized_execution_root)
    IN  IF ~consensus_update.attested_header.some
        THEN Err(proto_missing("attested_header"))
        ELSE IF attested_header.kind # "Ok" THEN attested_header
        ELSE IF ~consensus_update.finalized_header.some
        THEN Err(proto_missing("finalized_header"))
        ELSE IF finalized_header.kind # "Ok" THEN finalized_header
        ELSE IF finalized_execution_branch.kind # "Ok" THEN Panic
        ELSE IF next_sync_committee.kind # "Ok" THEN next_sync_committee
        ELSE IF finalized_header_branch.kind # "Ok" THEN Panic
        ELSE IF ~consensus_update.sync_aggregate.some
        THEN Err(proto_missing("sync_aggregate"))
        ELSE IF sync_aggregate.kind # "Ok" THEN sync_aggregate
        ELSE IF finalized_execution_root.kind # "Ok" THEN Panic
        ELSE Ok([attested_header |-> attested_header.val,
                 next_sync_committee |-> next_sync_committee.val,
                 finalized_header |->
                     <<finalized_header.val, finalized_header_branch.val>>,
                 sync_aggregate |-> sync_aggregate.val,
                 signature_slot |-> consensus_update.signature_slot,
                 finalized_execution_root |-> finalized_execution_root.val,
                 finalized_execution_branch |-> finalized_execution_branch.val])

(***************************************************************************)
(* Execution-update record.                                                *)
(***************************************************************************)
convert_proto_to_execution_update(execution_update) ==
    LET state_root == H256_from_slice(execution_update.state_root)
        state_root_branch == decode_branch(execution_update.state_root_branch)
        block_number_branch == decode_branch(execution_update.block_number_branch)
    IN  IF state_root.kind = "Panic" THEN Panic
        ELSE IF state_root_branch.kind = "Panic" THEN Panic
        ELSE IF block_number_branch.kind = "Panic" THEN Panic
        ELSE Ok([state_root |-> state_root.val,
                 state_root_branch |-> state_root_branch.val,
                 block_number |-> execution_update.block_number,
                 block_number_branch |-> block_number_branch.val])

(***************************************************************************)
(* Trusted-sync-committee record.                                          *)
(***************************************************************************)
\* ibc::Height::new: a revision height of zero is no height
Height_new(revision_number, revision_height) ==
    IF revision_height = 0 THEN Err([type |-> "InvalidHeight"])
    ELSE Ok([revision_number |-> revision_number,
             revision_height |-> revision_height])

\* SyncCommittee::validate of the consensus crate, as a check of the
\* committee alone: a key whose first byte is 255 stands for bytes that are
\* no valid public key
SyncCommittee_validate(committee) ==
    IF \E i \in DOMAIN committee.pubkeys : committee.pubkeys[i][1] = 255
    THEN Err([type |-> "InvalidSyncCommittee"])
    ELSE IF committee.aggregate_pubkey[1] = 255
    THEN Err([type |-> "InvalidSyncCommittee"])
    ELSE Ok(<<>>)

\* faulty variant: the committee is validated before the revision number
validate_committee_first(self) ==
    IF SyncCommittee_validate(self.sync_committee).kind = "Err"
    THEN SyncCommittee_validate(self.sync_committee)
    ELSE IF self.height.revision_number # ETHEREUM_CLIENT_REVISION_NUMBER
    THEN Err([type |-> "UnexpectedHeightRevisionNumber",
              expected |-> ETHEREUM_CLIENT_REVISION_NUMBER,
              got |-> self.height.revision_number])
    ELSE Ok(<<>>)

TrustedSyncCommittee_validate(self) ==
    IF self.height.revision_number # ETHEREUM_CLIENT_REVISION_NUMBER
    THEN Err([type |-> "UnexpectedHeightRevisionNumber",
              expected |-> ETHEREUM_CLIENT_REVISION_NUMBER,
              got |-> self.height.revision_number])
    ELSE IF SyncCommittee_validate(self.sync_committee).kind = "Err"
    THEN SyncCommittee_validate(self.sync_committee)
    ELSE Ok(<<>>)

\* faulty variant: sync_committee is looked for before trusted_height
try_from_committee_first(value, mode) ==
    LET height == Height_new(value.trusted_height.v.revision_number,
                             value.trusted_height.v.revision_height)
        sync_committee == decode_sync_committee(value.sync_committee.v, mode)
    IN  IF ~value.sync_committee.some
        THEN Err(proto_missing("sync_committee"))
        ELSE IF sync_committee.kind # "Ok" THEN sync_committee
        ELSE IF ~value.trusted_height.some
        THEN Err(proto_missing("trusted_height"))
        ELSE IF height.kind = "Err" THEN height
        ELSE Ok([height |-> height.val,
                 sync_committee |-> sync_committee.val,
                 is_next |-> value.is_next])

TrustedSyncCommittee_try_from(value, mode) ==
    LET height == Height_new(value.trusted_height.v.revision_number,
                             value.trusted_height.v.revision_height)
        sync_committee == decode_sync_committee(value.sync_committee.v, mode)
    IN  IF ~value.trusted_height.some
        THEN Err(proto_missing("trusted_height"))
        ELSE IF height.kind = "Err" THEN height
        ELSE IF ~value.sync_committee.some
        THEN Err(proto_missing("sync_committee"))
        ELSE IF sync_committee.kind # "Ok" THEN sync_committee
        ELSE Ok([height |-> height.val,
                 sync_committee |-> sync_committee.val,
                 is_next |-> value.is_next])

(***************************************************************************)
(* Account-proof codec (RLP).                                              *)
(***************************************************************************)
RECURSIVE BigEndian(_)
\* the number a big-endian byte string stands for
BigEndian(bytes) ==
    IF bytes = <<>> THEN 0
    ELSE 256 * BigEndian(SubSeq(bytes, 1, Len(bytes) - 1)) + bytes[Len(bytes)]

RECURSIVE LengthBytes(_)
\* the shortest big-endian byte string of a length
LengthBytes(n) ==
    IF n = 0 THEN <<>> ELSE Append(LengthBytes(n \div 256), n % 256)

RECURSIVE Concat(_)
\* the concatenation of a sequence of byte strings
Concat(seq) == IF seq = <<>> THEN <<>> ELSE Head(seq) \o Concat(Tail(seq))

\* RlpStream::begin_list then the insertion of the list header once the
\* announced items are in: the header of a list with this payload
rlp_list_header(payload_len) ==
    IF payload_len <= 55 THEN <<192 + payload_len>>
    ELSE <<247 + Len(LengthBytes(payload_len))>> \o LengthBytes(payload_len)

\* RlpStream::append of a byte string: its encoding as an RLP string
rlp_string(b) ==
    IF Len(b) = 1 /\ b[1] < 128 THEN b
    ELSE IF Len(b) <= 55 THEN <<128 + Len(b)>> \o b
    ELSE <<183 + Len(LengthBytes(Len(b)))>> \o LengthBytes(Len(b)) \o b

\* faulty variant: each element is appended as a string, not raw
encode_account_proof_reencoding(bz) ==
    IF Len(bz) = 0 THEN <<192>>
    ELSE rlp_list_header(Len(Concat([i \in DOMAIN bz |-> rlp_string(bz[i])])))
         \o Concat([i \in DOMAIN bz |-> rlp_string(bz[i])])

\* begin_list(proof.len()); append_raw(p, 1) for each p; out()
encode_account_proof(bz) ==
    IF Len(bz) = 0 THEN <<192>>
    ELSE rlp_list_header(Len(Concat(bz))) \o Concat(bz)

\* length of the header of the RLP item that starts at bytes[off]
rlp_header_len(bytes, off) ==
    LET h == bytes[off]
    IN  IF h < 184 THEN (IF h < 128 THEN 0 ELSE 1)
        ELSE IF h < 192 THEN 1 + (h - 183)
        ELSE IF h < 248 THEN 1
        ELSE 1 + (h - 247)

\* length of the whole RLP item (header and payload) that starts at
\* bytes[off], or -1 when its header runs past the end of the bytes
rlp_item_len(bytes, off) ==
    LET h == bytes[off]
        hl == rlp_header_len(bytes, off)
    IN  IF off > Len(bytes) THEN -1
        ELSE IF h < 128 THEN 1
        ELSE IF h < 184 THEN 1 + (h - 128)
        ELSE IF h < 192
        THEN (IF off + hl - 1 > Len(bytes) THEN -1
              ELSE hl + BigEndian(SubSeq(bytes, off + 1, off + hl - 1)))
        ELSE IF h < 248 THEN 1 + (h - 192)
        ELSE (IF off + hl - 1 > Len(bytes) THEN -1
              ELSE hl + BigEndian(SubSeq(bytes, off + 1, off + hl - 1)))

\* a byte string that is exactly one RLP item
is_rlp_item(bytes) == bytes # <<>> /\ rlp_item_len(bytes, 1) = Len(bytes)

RECURSIVE rlp_items(_, _)
\* the items of a list payload from bytes[off] on, each verbatim
rlp_items(bytes, off) ==
    IF off > Len(bytes) THEN Ok(<<>>)
    ELSE LET l == rlp_item_len(bytes, off)
         IN  IF l = -1 \/ off + l - 1 > Len(bytes) THEN Err([type |-> "BadRlp"])
             ELSE LET rest == rlp_items(bytes, off + l)
                  IN  IF rest.kind = "Err" THEN rest
                      ELSE Ok(<<SubSeq(bytes, off, off + l - 1)>> \o rest.val)

\* commitment::decode_eip1184_rlp_proof: one RLP list, its items verbatim
decode_eip1184_rlp_proof(bytes) ==
    IF bytes = <<>> \/ bytes[1] < 192 \/ rlp_item_len(bytes, 1) # Len(bytes)
    THEN Err([type |-> "BadRlp"])
    ELSE rlp_items(bytes, 1 + rlp_header_len(bytes, 1))

\* From<AccountUpdateInfo> for ProtoAccountUpdate
AccountUpdateInfo_into_proto(value) ==
    [account_proof |-> encode_account_proof(value.account_proof),
     account_storage_root |-> H256_as_bytes(value.account_storage_root)]

\* TryFrom<ProtoAccountUpdate> for AccountUpdateInfo
AccountUpdateInfo_try_from(value) ==
    LET account_proof == decode_eip1184_rlp_proof(value.account_proof)
        account_storage_root == H256_from_slice(value.account_storage_root)
    IN  IF account_proof.kind = "Err" THEN account_proof
        ELSE IF account_storage_root.kind = "Panic" THEN Panic
        ELSE Ok([account_proof |-> account_proof.val,
                 account_storage_root |-> account_storage_root.val])

(***************************************************************************)
(* The inputs the calls are made on.                                       *)
(***************************************************************************)
\* a 32-byte hash, and wire bytes one byte short of a hash
Hash(b) == Fill(HashLen, b)

ShortHash == Fill(HashLen - 1, 1)

WireHashes == {Hash(1), ShortHash}

WireBranches == {<<>>, <<Hash(4)>>, <<Hash(4), ShortHash>>}

ProtoHeader(slot, parent_root, state_root, body_root) ==
    [slot |-> slot, proposer_index |-> 3, parent_root |-> parent_root,
     state_root |-> state_root, body_root |-> body_root]

\* every combination of well- and ill-sized roots
AllProtoHeaders ==
    {ProtoHeader(100, p, s, b) : p \in WireHashes, s \in WireHashes, b \in WireHashes}

ProtoHeaders == {ProtoHeader(100, p, Hash(2), Hash(3)) : p \in WireHashes}

\* a well-sized key, and wire bytes one byte short of a key
Key(b) == Fill(PublicKeyLen, b)

ShortKey == Fill(PublicKeyLen - 1, 9)

\* key lists of every count from 0 to N + 1 with all keys well-sized, and
\* lists of up to N keys with one ill-sized key at each position
PubkeyLists ==
    {[i \in 1..n |-> Key(i)] : n \in 0..(SYNC_COMMITTEE_SIZE + 1)}
    \cup UNION {{[i \in 1..n |-> IF i = j THEN ShortKey ELSE Key(i)] : j \in 1..n}
                    : n \in 1..SYNC_COMMITTEE_SIZE}

ProtoSyncCommittees ==
    {[pubkeys |-> pks, aggregate_pubkey |-> agg] :
        pks \in PubkeyLists, agg \in {Key(7), ShortKey}}

\* wire bit-vectors: no bit set, every bit set, a bit set at position N,
\* one byte too many, no byte at all
WireBits ==
    {<<0>>, <<(2 ^ SYNC_COMMITTEE_SIZE) - 1>>, <<2 ^ SYNC_COMMITTEE_SIZE>>,
     <<0, 0>>, <<>>}

ProtoSyncAggregates ==
    {[sync_committee_bits |-> bits, sync_committee_signature |-> sig] :
        bits \in WireBits,
        sig \in {Fill(SignatureLen, 5), Fill(SignatureLen - 1, 5)}}

Optional(S) == {None} \cup {Some(x) : x \in S}

ProtoConsensusUpdates ==
    [attested_header : Optional(ProtoHeaders),
     next_sync_committee : Optional(ProtoSyncCommittees),
     next_sync_committee_branch : WireBranches,
     finalized_header : Optional(ProtoHeaders),
     finalized_header_branch : {<<Hash(4)>>, <<ShortHash>>},
     finalized_execution_root : WireHashes,
     finalized_execution_branch : {<<Hash(6)>>, <<ShortHash>>},
     sync_aggregate : Optional(ProtoSyncAggregates),
     signature_slot : {101}]

ProtoExecutionUpdates ==
    [state_root : WireHashes,
     state_root_branch : WireBranches,
     block_number : {5},
     block_number_branch : WireBranches]

ProtoHeights == [revision_number : {0, 1}, revision_height : {0, 1}]

ProtoTrustedSyncCommittees ==
    [trusted_height : Optional(ProtoHeights),
     sync_committee : Optional(ProtoSyncCommittees),
     is_next : BOOLEAN]

\* well-formed RLP nodes: a single byte, the empty string, a short string, the
\* empty list, a list of two items, a string of 56 bytes (long header)
RlpNodes ==
    {<<5>>, <<128>>, <<130, 1, 2>>, <<192>>, <<194, 5, 128>>,
     <<184, 56>> \o Fill(56, 183)}

\* byte strings that are no RLP item: nothing, and a string cut short
BrokenNodes == {<<>>, <<130, 1>>}

RECURSIVE SeqsUpTo(_, _)
\* the sequences over S of length at most n
SeqsUpTo(S, n) ==
    IF n = 0 THEN {<<>>}
    ELSE SeqsUpTo(S, n - 1)
         \cup {Append(q, x) : q \in {r \in SeqsUpTo(S, n - 1) : Len(r) = n - 1}, x \in S}

AccountUpdateInfos ==
    [account_proof : SeqsUpTo(RlpNodes \cup BrokenNodes, MaxProofLen),
     account_storage_root : {Hash(8)}]

ProtoAccountUpdates ==
    [account_proof : {<<192>>, <<194, 5, 128>>, <<128>>, <<194, 5>>, <<>>},
     account_storage_root : WireHashes]

DomainHeaders ==
    {[slot |-> s, proposer_index |-> 3, parent_root |-> Hash(1),
      state_root |-> Hash(2), body_root |-> Hash(3)] : s \in {99, 100}}

\* committees of exactly N keys; a first key of 255s is no valid public key
SyncCommittees ==
    {[pubkeys |-> [i \in 1..SYNC_COMMITTEE_SIZE |-> Key(IF i = 1 THEN k ELSE i)],
      aggregate_pubkey |-> Key(7)] : k \in {1, 255}}

DomainBranches == {<<>>, <<Hash(4)>>, <<Hash(4), Hash(6)>>}

SyncAggregates ==
    [sync_committee_bits : [1..SYNC_COMMITTEE_SIZE -> BOOLEAN],
     sync_committee_signature : {Fill(SignatureLen, 5)}]

ConsensusUpdateInfos ==
    [attested_header : DomainHeaders,
     next_sync_committee :
         Optional({<<c, b>> : c \in SyncCommittees, b \in DomainBranches}),
     finalized_header : {<<h, b>> : h \in DomainHeaders, b \in {<<>>, <<Hash(4)>>}},
     sync_aggregate : SyncAggregates,
     signature_slot : {101},
     finalized_execution_root : {Hash(8)},
     finalized_execution_branch : {<<>>, <<Hash(6)>>}]

TrustedSyncCommittees ==
    [height : [revision_number : {0, 1}, revision_height : {1, 2}],
     sync_committee : SyncCommittees,
     is_next : BOOLEAN]

(***************************************************************************)
(* The state machine: a value arrives on the wire or from the domain side, *)
(* is encoded and/or decoded or validated, and the call's outcome is kept. *)
(***************************************************************************)
Unset == [type |-> "none"]

NoRet == [kind |-> "none"]

Tagged(t, S) == {[type |-> t, msg |-> m] : m \in S}

Init ==
    /\ pc = "start"
    /\ ret = NoRet
    /\ \/ /\ dom = Unset
          /\ \/ wire \in Tagged("Branch", WireBranches)
             \/ wire \in Tagged("BeaconBlockHeader", AllProtoHeaders)
             \/ wire \in Tagged("ConsensusUpdate", ProtoConsensusUpdates)
             \/ wire \in Tagged("ExecutionUpdate", ProtoExecutionUpdates)
             \/ wire \in Tagged("SyncAggregate", ProtoSyncAggregates)
             \/ wire \in Tagged("TrustedSyncCommittee", ProtoTrustedSyncCommittees)
             \/ wire \in Tagged("AccountUpdate", ProtoAccountUpdates)
       \/ /\ wire = Unset
          /\ \/ dom \in Tagged("ConsensusUpdateInfo", ConsensusUpdateInfos)
             \/ dom \in Tagged("TrustedSyncCommittee", TrustedSyncCommittees)
             \/ dom \in Tagged("AccountUpdateInfo", AccountUpdateInfos)

\* a decode call is made on a wire message of its type that was received
\* or has just been encoded
Decodes(t) == pc \in {"start", "encoded"} /\ wire.type = t

Return(r) == ret' = r /\ pc' = "done" /\ UNCHANGED <<wire, dom>>

Emit(t, m) ==
    wire' = [type |-> t, msg |-> m] /\ pc' = "encoded" /\ UNCHANGED <<dom, ret>>

DecodeConsensusUpdate ==
    /\ Decodes("ConsensusUpdate")
    /\ \E mode \in FromIterModes :
          Return(convert_proto_to_consensus_update(wire.msg, mode))

EncodeConsensusUpdate ==
    /\ pc = "start" /\ dom.type = "ConsensusUpdateInfo"
    /\ Emit("ConsensusUpdate", convert_consensus_update_to_proto(dom.msg))

DecodeHeader ==
    /\ Decodes("BeaconBlockHeader")
    /\ Return(convert_proto_to_header(wire.msg))

DecodeBranch ==
    /\ Decodes("Branch")
    /\ Return(decode_branch(wire.msg))

DecodeExecutionUpdate ==
    /\ Decodes("ExecutionUpdate")
    /\ Return(convert_proto_to_execution_update(wire.msg))

DecodeSyncAggregate ==
    /\ Decodes("SyncAggregate")
    /\ Return(convert_proto_sync_aggregate(wire.msg))

DecodeTrustedSyncCommittee ==
    /\ Decodes("TrustedSyncCommittee")
    /\ \E mode \in FromIterModes :
          Return(TrustedSyncCommittee_try_from(wire.msg, mode))

Validate ==
    /\ pc = "start" /\ dom.type = "TrustedSyncCommittee"
    /\ Return(TrustedSyncCommittee_validate(dom.msg))

EncodeAccountUpdate ==
    /\ pc = "start" /\ dom.type = "AccountUpdateInfo"
    /\ Emit("AccountUpdate", AccountUpdateInfo_into_proto(dom.msg))

DecodeAccountUpdate ==
    /\ Decodes("AccountUpdate")
    /\ Return(AccountUpdateInfo_try_from(wire.msg))

Next ==
    \/ DecodeConsensusUpdate
    \/ EncodeConsensusUpdate
    \/ DecodeHeader
    \/ DecodeBranch
    \/ DecodeExecutionUpdate
    \/ DecodeSyncAggregate
    \/ DecodeTrustedSyncCommittee
    \/ Validate
    \/ EncodeAccountUpdate
    \/ DecodeAccountUpdate

Spec == Init /\ [][Next]_vars

(***************************************************************************)
(* Properties.                                                             *)
(***************************************************************************)
DecodedConsensusUpdate == pc = "done" /\ wire.type = "ConsensusUpdate"

\* C1: whenever convert_proto_to_consensus_update succeeds, the decoded
\* next_sync_committee is Some exactly when the wire committee is present,
\* its pubkeys are non-empty and next_sync_committee_branch is non-empty;
\* every other combination decodes to None.
C1_NextSyncCommitteePresence ==
    (DecodedConsensusUpdate /\ ret.kind = "Ok") =>
        (ret.val.next_sync_committee.some <=>
            /\ wire.msg.next_sync_committee.some
            /\ wire.msg.next_sync_committee.v.pubkeys # <<>>
            /\ wire.msg.next_sync_committee_branch # <<>>)

\* a decode that succeeded with a committee, and so with all three present
C1_Witness ==
    /\ DecodedConsensusUpdate /\ ret.kind = "Ok"
    /\ ret.val.next_sync_committee.some
    /\ wire.msg.next_sync_committee.some
    /\ Len(wire.msg.next_sync_committee.v.pubkeys) = SYNC_COMMITTEE_SIZE
    /\ wire.msg.next_sync_committee_branch # <<>>

\* every hash and branch element of a wire ConsensusUpdate is 32 bytes long
HashesWellSized(consensus_update) ==
    LET sized(b) == Len(b) = HashLen
        header_sized(h) ==
            h.some => sized(h.v.parent_root) /\ sized(h.v.state_root)
                      /\ sized(h.v.body_root)
        branch_sized(bz) == \A i \in DOMAIN bz : sized(bz[i])
    IN  /\ header_sized(consensus_update.attested_header)
        /\ header_sized(consensus_update.finalized_header)
        /\ branch_sized(consensus_update.next_sync_committee_branch)
        /\ branch_sized(consensus_update.finalized_header_branch)
        /\ branch_sized(consensus_update.finalized_execution_branch)
        /\ sized(consensus_update.finalized_execution_root)

\* the wire committee, when present, holds exactly N keys
CommitteeCountIsN(consensus_update) ==
    consensus_update.next_sync_committee.some =>
        Len(consensus_update.next_sync_committee.v.pubkeys) = SYNC_COMMITTEE_SIZE

\* C2: a wire ConsensusUpdate in which attested_header, finalized_header or
\* sync_aggregate is the absent field fails to decode with the MissingField
\* error that names this field, whatever the other fields hold (a
\* next_sync_committee with malformed key bytes included).  Stated on the
\* messages whose hashes are all 32 bytes long and whose committee has N
\* keys, where no conversion panics.
C2_MissingFieldNamed ==
    ( /\ DecodedConsensusUpdate
      /\ HashesWellSized(wire.msg)
      /\ CommitteeCountIsN(wire.msg) ) =>
        /\ ( /\ ~wire.msg.attested_header.some
             /\ wire.msg.finalized_header.some
             /\ wire.msg.sync_aggregate.some )
           => ret = Err(proto_missing("attested_header"))
        /\ ( /\ wire.msg.attested_header.some
             /\ ~wire.msg.finalized_header.some
             /\ wire.msg.sync_aggregate.some )
           => ret = Err(proto_missing("finalized_header"))
        /\ ( /\ wire.msg.attested_header.some
             /\ wire.msg.finalized_header.some
             /\ ~wire.msg.sync_aggregate.some )
           => ret = Err(proto_missing("sync_aggregate"))

\* C3: every decode operation ends in a complete record or in a typed Error
\* returned to the caller; no wire input makes it panic.
C3_DecodeNeverPanics ==
    ( /\ pc = "done"
      /\ wire.type \in {"Branch", "BeaconBlockHeader", "ExecutionUpdate",
                        "AccountUpdate", "ConsensusUpdate"} )
        => ret.kind \in {"Ok", "Err"}

\* the next_sync_committee of a domain record is None, or Some with a
\* non-empty branch and a non-empty pubkeys list
Normalized(consensus_update) ==
    consensus_update.next_sync_committee.some =>
        /\ consensus_update.next_sync_committee.v[2] # <<>>
        /\ consensus_update.next_sync_committee.v[1].pubkeys # <<>>

RoundTrippedConsensusUpdate == pc = "done" /\ dom.type = "ConsensusUpdateInfo"

\* C4: for every normalized ConsensusUpdateInfo R, decoding the encoding of
\* R succeeds and yields R, field for field.
C4_RoundTrip ==
    (RoundTrippedConsensusUpdate /\ Normalized(dom.msg)) => ret = Ok(dom.msg)

\* a record with a next sync committee and some participation bit set went
\* through encode and decode
C4_Witness ==
    /\ RoundTrippedConsensusUpdate /\ Normalized(dom.msg)
    /\ dom.msg.next_sync_committee.some
    /\ \E i \in 1..SYNC_COMMITTEE_SIZE : dom.msg.sync_aggregate.sync_committee_bits[i]
    /\ ret.kind = "Ok"

\* the wire bytes are the serialization of a bit-vector of exactly N bits
ExactlyNBits(bytes) ==
    /\ Len(bytes) = byte_length(SYNC_COMMITTEE_SIZE)
    /\ \A j \in 1..Len(bytes) : \A k \in 0..7 :
          BitAt(bytes[j], k) = 1 => 8 * (j - 1) + k < SYNC_COMMITTEE_SIZE

\* every key of a wire committee, the aggregate key too, is 48 bytes long
KeysWellSized(committee) ==
    /\ \A i \in DOMAIN committee.pubkeys : Len(committee.pubkeys[i]) = PublicKeyLen
    /\ Len(committee.aggregate_pubkey) = PublicKeyLen

\* C5: decoding a wire sync committee into SyncCommittee<N> (the next
\* committee of a ConsensusUpdate that does not collapse, or the committee of
\* a TrustedSyncCommittee) fails with an error when the number of pubkeys is
\* not N, even if every key is well-formed; so every decoded committee has
\* exactly N pubkeys.  Stated on the messages in which the number of keys is
\* the only defect there can be: the keys are all well-formed and every other
\* field is present and converts.
C5_WrongCountRejected ==
    /\ ( /\ pc = "done" /\ wire.type = "TrustedSyncCommittee"
         /\ wire.msg.trusted_height.some
         /\ wire.msg.trusted_height.v.revision_height # 0
         /\ wire.msg.sync_committee.some
         /\ KeysWellSized(wire.msg.sync_committee.v)
         /\ Len(wire.msg.sync_committee.v.pubkeys) # SYNC_COMMITTEE_SIZE )
       => ret.kind = "Err"
    /\ ( /\ DecodedConsensusUpdate
         /\ HashesWellSized(wire.msg)
         /\ wire.msg.attested_header.some /\ wire.msg.finalized_header.some
         /\ wire.msg.sync_aggregate.some
         /\ ExactlyNBits(wire.msg.sync_aggregate.v.sync_committee_bits)
         /\ Len(wire.msg.sync_aggregate.v.sync_committee_signature) = SignatureLen
         /\ ~next_sync_committee_collapses(wire.msg)
         /\ KeysWellSized(wire.msg.next_sync_committee.v)
         /\ Len(wire.msg.next_sync_committee.v.pubkeys) # SYNC_COMMITTEE_SIZE )
       => ret.kind = "Err"
    /\ (pc = "done" /\ wire.type = "TrustedSyncCommittee" /\ ret.kind = "Ok")
       => Len(ret.val.sync_committee.pubkeys) = SYNC_COMMITTEE_SIZE
    /\ ( /\ DecodedConsensusUpdate /\ ret.kind = "Ok"
         /\ ret.val.next_sync_committee.some )
       => Len(ret.val.next_sync_committee.v[1].pubkeys) = SYNC_COMMITTEE_SIZE

Validated == pc = "done" /\ dom.type = "TrustedSyncCommittee"

\* C6: validate() returns UnexpectedHeightRevisionNumber{expected, got}
\* whenever the revision number is not ETHEREUM_CLIENT_REVISION_NUMBER, for
\* every revision height and whatever the committee; when the revision number
\* matches, its result is the result of the committee's own validate.
C6_ValidateRevisionFirst ==
    Validated =>
        /\ dom.msg.height.revision_number # ETHEREUM_CLIENT_REVISION_NUMBER
           => ret = Err([type |-> "UnexpectedHeightRevisionNumber",
                         expected |-> ETHEREUM_CLIENT_REVISION_NUMBER,
                         got |-> dom.msg.height.revision_number])
        /\ dom.msg.height.revision_number = ETHEREUM_CLIENT_REVISION_NUMBER
           => ret = SyncCommittee_validate(dom.msg.sync_committee)

\* a record with a wrong revision number and a malformed committee was validated
C6_Witness ==
    /\ Validated
    /\ dom.msg.height.revision_number # ETHEREUM_CLIENT_REVISION_NUMBER
    /\ SyncCommittee_validate(dom.msg.sync_committee).kind = "Err"
    /\ ret.kind = "Err"

DecodedSyncAggregate == pc = "done" /\ wire.type = "SyncAggregate"

\* C7: convert_proto_sync_aggregate fails, without a panic, on every
\* sync_committee_bits that is no bit-vector of exactly N bits, with the
\* bit-vector error that carries N and the rejected bytes unchanged, also
\* when the signature bytes are malformed too.
C7_BitvectorError ==
    (DecodedSyncAggregate /\ ~ExactlyNBits(wire.msg.sync_committee_bits)) =>
        /\ ret.kind = "Err"
        /\ ret.err.type = "DeserializeSyncCommitteeBitsError"
        /\ ret.err.sync_committee_size = SYNC_COMMITTEE_SIZE
        /\ ret.err.sync_committee_bits = wire.msg.sync_committee_bits

\* bits and signature were both malformed
C7_Witness ==
    /\ DecodedSyncAggregate
    /\ ~ExactlyNBits(wire.msg.sync_committee_bits)
    /\ Len(wire.msg.sync_committee_signature) # SignatureLen
    /\ ret.kind = "Err"

EncodedConsensusUpdate ==
    pc \in {"encoded", "done"} /\ dom.type = "ConsensusUpdateInfo"

\* C8: the encoded next_sync_committee is present exactly when the domain
\* value is Some, with pubkeys, aggregate key and branch copied verbatim and
\* no collapsing; for None the wire committee is absent and the branch empty.
\* So Some(committee, empty branch) encodes to a present committee with an
\* empty branch, and decoding that yields None, not the original value.
C8_EncodeVerbatim ==
    /\ EncodedConsensusUpdate =>
          /\ wire.msg.next_sync_committee.some <=> dom.msg.next_sync_committee.some
          /\ dom.msg.next_sync_committee.some =>
                /\ wire.msg.next_sync_committee.v.pubkeys
                       = dom.msg.next_sync_committee.v[1].pubkeys
                /\ wire.msg.next_sync_committee.v.aggregate_pubkey
                       = dom.msg.next_sync_committee.v[1].aggregate_pubkey
                /\ wire.msg.next_sync_committee_branch
                       = dom.msg.next_sync_committee.v[2]
          /\ ~dom.msg.next_sync_committee.some =>
                wire.msg.next_sync_committee_branch = <<>>
    /\ ( /\ RoundTrippedConsensusUpdate
         /\ dom.msg.next_sync_committee.some
         /\ dom.msg.next_sync_committee.v[2] = <<>> )
       => /\ ret.kind = "Ok"
          /\ ~ret.val.next_sync_committee.some
          /\ ret.val # dom.msg

\* Some(committee, empty branch) was encoded and decoded back
C8_Witness ==
    /\ RoundTrippedConsensusUpdate
    /\ dom.msg.next_sync_committee.some
    /\ dom.msg.next_sync_committee.v[2] = <<>>
    /\ wire.msg.next_sync_committee.some
    /\ ret.kind = "Ok"

RoundTrippedAccountUpdate == pc = "done" /\ dom.type = "AccountUpdateInfo"

AllRlpNodes(seq) == \A i \in DOMAIN seq : is_rlp_item(seq[i])

\* C9: for a sequence of well-formed RLP nodes (the empty one too), decoding
\* the bytes of encode_account_proof returns the same sequence; the bytes are
\* a list header followed by the elements as they are.
C9_AccountProofRoundTrip ==
    /\ (RoundTrippedAccountUpdate /\ AllRlpNodes(dom.msg.account_proof)) =>
          /\ ret.kind = "Ok"
          /\ ret.val.account_proof = dom.msg.account_proof
    /\ (pc \in {"encoded", "done"} /\ dom.type = "AccountUpdateInfo") =>
          /\ wire.msg.account_proof[1] >= 192
          /\ \E h \in 1..Len(wire.msg.account_proof) :
                SubSeq(wire.msg.account_proof, h + 1, Len(wire.msg.account_proof))
                    = Concat(dom.msg.account_proof)

\* a proof of at least two nodes, one of them a list, made the round trip
C9_Witness ==
    /\ RoundTrippedAccountUpdate /\ AllRlpNodes(dom.msg.account_proof)
    /\ Len(dom.msg.account_proof) >= 2
    /\ \E i \in DOMAIN dom.msg.account_proof : dom.msg.account_proof[i][1] >= 192
    /\ ret.kind = "Ok"

DecodedTrustedSyncCommittee == pc = "done" /\ wire.type = "TrustedSyncCommittee"

\* the wire committee holds exactly N well-sized keys and a well-sized aggregate
WellFormedCommittee(committee) ==
    /\ Len(committee.pubkeys) = SYNC_COMMITTEE_SIZE
    /\ KeysWellSized(committee)

\* C10: decoding a wire TrustedSyncCommittee fails with
\* MissingField("trusted_height") whenever trusted_height is absent, and with
\* MissingField("sync_committee") when trusted_height yields a valid height
\* and sync_committee is absent; a decoded record carries the wire
\* revision_number, revision_height and is_next, and decode accepts a
\* revision number other than ETHEREUM_CLIENT_REVISION_NUMBER.
C10_TrustedSyncCommitteeDecode ==
    DecodedTrustedSyncCommittee =>
        /\ ~wire.msg.trusted_height.some
           => ret = Err(proto_missing("trusted_height"))
        /\ ( /\ wire.msg.trusted_height.some
             /\ wire.msg.trusted_height.v.revision_height # 0
             /\ ~wire.msg.sync_committee.some )
           => ret = Err(proto_missing("sync_committee"))
        /\ ret.kind = "Ok" =>
              /\ ret.val.height.revision_number
                     = wire.msg.trusted_height.v.revision_number
              /\ ret.val.height.revision_height
                     = wire.msg.trusted_height.v.revision_height
              /\ ret.val.is_next = wire.msg.is_next
        /\ ( /\ wire.msg.trusted_height.some
             /\ wire.msg.trusted_height.v.revision_height # 0
             /\ wire.msg.sync_committee.some
             /\ WellFormedCommittee(wire.msg.sync_committee.v) )
           => ret.kind = "Ok"

\* a record with a revision number other than the client's was decoded
C10_Witness ==
    /\ DecodedTrustedSyncCommittee /\ ret.kind = "Ok"
    /\ ret.val.height.revision_number # ETHEREUM_CLIENT_REVISION_NUMBER
    /\ ret.val.is_next

====
